---- MODULE Spec2Model ----
(***************************************************************************)
(* Order processing, src/main.js: the original OrderProcessor class        *)
(* (lines 4-317) and the refactored free functions (lines 333-501), as one *)
(* state machine.                                                          *)
(*                                                                         *)
(* Money is exact: an amount is an integer number of 1/Scale currency      *)
(* units, and Scale is chosen so that tax (1/10 or 1/5) followed by the    *)
(* four discount rates (1/10, 1/20, 1/10|1/5|1/2, 3/20) never leaves a     *)
(* remainder.  The source uses IEEE doubles; rounding in the last bits is  *)
(* not modelled.  Wall-clock timestamps (processingStartTime, processedAt, *)
(* timestamp) are left out; the month read by new Date().getMonth() is an  *)
(* input of each call.                                                     *)
(***************************************************************************)
EXTENDS Integers, Sequences, FiniteSets, TLC

VARIABLES
  state,      \* this.state of the OrderProcessor instance
  input,      \* arguments of the latest processOrders call: batch, options, month
  response,   \* what OrderProcessor.processOrders returned last
  outcomes,   \* per-order results of the latest OrderProcessor.processOrders call
  seen,       \* every (order, options, month, outcome) priced on this instance
  refResult   \* what the refactored processOrders returned (or that it threw)

vars == <<state, input, response, outcomes, seen, refResult>>

----------------------------------------------------------------------------
(* Bounds of the exploration *)

MaxItems == 2     \* line items per order
MaxBatch == 2     \* orders per batch
MaxHandled == 3   \* orders handled by one processor instance in a session

----------------------------------------------------------------------------
(* Money and rates *)

Scale == 10 * 40000

Money(n) == n * Scale

Rate(n, d) == [n |-> n, d |-> d]

\* price * rate, exact for the amounts the model produces
Times(x, r) == (x \div r.d) * r.n

Max(a, b) == IF a >= b THEN a ELSE b

RECURSIVE SumSeq(_)
SumSeq(s) == IF s = <<>> THEN 0 ELSE Head(s) + SumSeq(Tail(s))

----------------------------------------------------------------------------
(* Business constants of the refactored code *)

TAX_RATE == Rate(1, 10)
STANDARD_FEE == Money(5) \div 2
LARGE_ORDER_FEE == Money(5)
LARGE_ORDER_THRESHOLD == 10
MINIMUM_ORDER_VALUE == 10

PremiumThreshold == 1000
GoldThreshold == 500

CUSTOMER_TIERS(tier) ==
  CASE tier = "premium" -> [threshold |-> PremiumThreshold, discount |-> Rate(1, 10)]
    [] tier = "gold" -> [threshold |-> GoldThreshold, discount |-> Rate(0, 1)]
    [] OTHER -> [threshold |-> 0, discount |-> Rate(0, 1)]

PROMO_CODES(code) ==
  CASE code = "SAVE10" -> Rate(1, 10)
    [] code = "SAVE20" -> Rate(1, 5)
    [] code = "SAVE50" -> Rate(1, 2)
    [] OTHER -> Rate(0, 1)

----------------------------------------------------------------------------
(* Values *)

\* An item: null, or an object whose id is truthy or not.
Item(hasId, price, quantity) ==
  [kind |-> "object", id |-> hasId, price |-> price, quantity |-> quantity]
NullItem == [kind |-> "null", id |-> FALSE, price |-> 0, quantity |-> 0]

\* An email is a sequence of characters.
GoodEmail == <<"t", "@", "e", ".", "c">>
NoTldEmail == <<"t", "@", "e">>
SpaceEmail == <<"t", " ", "@", "e", ".", "c">>
NoEmail == <<>>

Customer(hasId, email, hasHistory, totalSpent, isValid) ==
  [kind |-> "object", id |-> hasId, email |-> email, hasHistory |-> hasHistory,
   totalSpent |-> totalSpent, isValid |-> isValid]
NoCustomer ==
  [kind |-> "absent", id |-> FALSE, email |-> NoEmail, hasHistory |-> FALSE,
   totalSpent |-> 0, isValid |-> FALSE]

ItemsArray(elems) == [kind |-> "array", elems |-> elems]
NoItems == [kind |-> "absent", elems |-> <<>>]
NotAnArray == [kind |-> "nonarray", elems |-> <<>>]   \* truthy, not iterable

Order(hasId, items, customer) ==
  [kind |-> "object", id |-> hasId, items |-> items, customer |-> customer]
NullOrder == [kind |-> "null", id |-> FALSE, items |-> NoItems, customer |-> NoCustomer]
NonObjectOrder ==
  [kind |-> "nonobject", id |-> FALSE, items |-> NoItems, customer |-> NoCustomer]

\* The options argument of OrderProcessor.processOrders.  taxRate with n = 0
\* is a falsy taxRate (absent or 0); adjustments <<>> is an absent or empty list;
\* promotionalCode "" is an absent code; applyFees FALSE is applyFees === false.
Options(taxRate, applyFees, adjustments, promotionalCode, strictMode, requireMinimumValue, skipInvalidCustomers) ==
  [taxRate |-> taxRate, applyFees |-> applyFees, adjustments |-> adjustments,
   promotionalCode |-> promotionalCode, strictMode |-> strictMode,
   requireMinimumValue |-> requireMinimumValue,
   skipInvalidCustomers |-> skipInvalidCustomers,
   includeDetails |-> TRUE, includeStatistics |-> TRUE, includeMetadata |-> FALSE]

DefaultOptions == Options(Rate(0, 1), TRUE, <<>>, "", FALSE, FALSE, FALSE)

----------------------------------------------------------------------------
(* Helpers shared by both implementations *)

\* /^[^\s@]+@[^\s@]+\.[^\s@]+$/ : one "@", no whitespace, a non-empty local
\* part, and after the "@" a "." with at least one character on each side.
isValidEmail(email) ==
  \E i \in 1..Len(email) :
    /\ email[i] = "@"
    /\ i > 1
    /\ \A k \in 1..Len(email) : k # i => email[k] \notin {"@", " "}
    /\ \E j \in 1..Len(email) : j > i + 1 /\ j < Len(email) /\ email[j] = "."

\* items.reduce((sum, item) => sum + item.price * item.quantity, 0), in money
RECURSIVE calculateSubtotal(_)
calculateSubtotal(items) ==
  IF items = <<>> THEN 0
  ELSE Money(Head(items).price * Head(items).quantity) + calculateSubtotal(Tail(items))

\* items.reduce((sum, item) => sum + item.quantity, 0)
RECURSIVE TotalItems(_)
TotalItems(items) ==
  IF items = <<>> THEN 0 ELSE Head(items).quantity + TotalItems(Tail(items))

----------------------------------------------------------------------------
(* The original OrderProcessor *)

Err(scope, index, msg) == [scope |-> scope, index |-> index, msg |-> msg]

\* The body of order.items.forEach((item, index) => ...) for one item
ItemErrorsAt(item, index) ==
  (IF ~item.id THEN <<Err("item", index, "missing id")>> ELSE <<>>)
  \o (IF item.price = 0 \/ item.price <= 0
      THEN <<Err("item", index, "has invalid price")>> ELSE <<>>)
  \o (IF item.quantity = 0 \/ item.quantity <= 0
      THEN <<Err("item", index, "has invalid quantity")>> ELSE <<>>)

RECURSIVE ItemErrorsFrom(_, _)
ItemErrorsFrom(elems, index) ==
  IF elems = <<>> THEN <<>>
  ELSE ItemErrorsAt(Head(elems), index) \o ItemErrorsFrom(Tail(elems), index + 1)

\* Reading item.id of a null item is a TypeError.
HasNullItem(items) ==
  items.kind = "array" /\ \E i \in 1..Len(items.elems) : items.elems[i].kind = "null"

performComprehensiveValidation(order) ==
  IF order.kind # "object"
  THEN [threw |-> FALSE, isValid |-> FALSE,
        errors |-> <<Err("order", -1, "Order must be a valid object")>>]
  ELSE IF HasNullItem(order.items)
  THEN [threw |-> TRUE, isValid |-> FALSE, errors |-> <<>>]
  ELSE
    LET required ==
          (IF ~order.id THEN <<Err("order", -1, "Missing required field: id")>> ELSE <<>>)
          \o (IF order.items.kind = "absent"
              THEN <<Err("order", -1, "Missing required field: items")>> ELSE <<>>)
          \o (IF order.customer.kind = "absent"
              THEN <<Err("order", -1, "Missing required field: customer")>> ELSE <<>>)
        itemErrors ==
          CASE order.items.kind = "absent" -> <<>>
            [] order.items.kind = "nonarray" ->
                 <<Err("order", -1, "Items must be an array")>>
            [] order.items.elems = <<>> ->
                 <<Err("order", -1, "Order must contain at least one item")>>
            [] OTHER -> ItemErrorsFrom(order.items.elems, 0)
        customerErrors ==
          IF order.customer.kind = "absent" THEN <<>>
          ELSE (IF ~order.customer.id
                THEN <<Err("customer", -1, "Customer missing id")>> ELSE <<>>)
               \o (IF order.customer.email = <<>> \/ ~isValidEmail(order.customer.email)
                   THEN <<Err("customer", -1, "Customer missing valid email")>>
                   ELSE <<>>)
        errors == required \o itemErrors \o customerErrors
    IN [threw |-> FALSE, isValid |-> errors = <<>>, errors |-> errors]

determineCustomerTier(customer) ==
  IF customer.kind = "absent" \/ ~customer.hasHistory THEN "standard"
  ELSE IF customer.totalSpent > 1000 THEN "premium"
  ELSE IF customer.totalSpent > 500 THEN "gold"
  ELSE "standard"

transformAndEnrichOrder(order, options) ==
  LET totalItems == TotalItems(order.items.elems)
  IN [order |-> order,
      processingOptions |-> options,
      totalItems |-> totalItems,
      subtotal |-> calculateSubtotal(order.items.elems),
      metadata |-> [itemCount |-> Len(order.items.elems),
                    hasMultipleItems |-> Len(order.items.elems) > 1,
                    isLargeOrder |-> totalItems > 10,
                    customerTier |-> determineCustomerTier(order.customer)]]

calculateComplexPricing(order, options) ==
  LET taxRate == IF options.taxRate.n # 0 THEN options.taxRate ELSE Rate(1, 10)
      taxes == Times(order.subtotal, taxRate)
      fees == IF options.applyFees
              THEN (IF order.metadata.isLargeOrder THEN Money(5) ELSE Money(5) \div 2)
              ELSE 0
      adjustments == Money(SumSeq(options.adjustments))
  IN [finalPrice |-> order.subtotal + taxes + fees + adjustments,
      breakdown |-> [subtotal |-> order.subtotal, taxes |-> taxes, fees |-> fees,
                     adjustments |-> adjustments]]

calculatePromotionalDiscount(price, code) ==
  IF code \in {"SAVE10", "SAVE20", "SAVE50"}
  THEN Times(price, CASE code = "SAVE10" -> Rate(1, 10)
                      [] code = "SAVE20" -> Rate(1, 5)
                      [] OTHER -> Rate(1, 2))
  ELSE 0

Discount(type, amount) == [type |-> type, amount |-> amount]

\* One rule of applyMultiLevelDiscounts on the running price: discount computed
\* on the price so far, subtracted, and pushed on appliedDiscounts.
ApplyRule(running, type, discount) ==
  [discountedPrice |-> running.discountedPrice - discount,
   discounts |-> Append(running.discounts, Discount(type, discount))]

TierRule(running, order) ==
  IF order.metadata.customerTier = "premium"
  THEN ApplyRule(running, "tier", Times(running.discountedPrice, Rate(1, 10)))
  ELSE running

VolumeRule(running, order) ==
  IF order.metadata.isLargeOrder
  THEN ApplyRule(running, "volume", Times(running.discountedPrice, Rate(1, 20)))
  ELSE running

PromotionalRule(running, options) ==
  IF options.promotionalCode # ""
     /\ calculatePromotionalDiscount(running.discountedPrice, options.promotionalCode) > 0
  THEN ApplyRule(running, "promotional",
                 calculatePromotionalDiscount(running.discountedPrice,
                                              options.promotionalCode))
  ELSE running

SeasonalRule(running, currentMonth) ==
  IF currentMonth = 11
  THEN ApplyRule(running, "seasonal", Times(running.discountedPrice, Rate(3, 20)))
  ELSE running

\* Lines 181-213: order carries finalPrice (the total before discounts) and
\* metadata; the running price after the four rules and the discounts applied.
DiscountChain(order, options, currentMonth) ==
  SeasonalRule(
    PromotionalRule(
      VolumeRule(
        TierRule([discountedPrice |-> order.finalPrice, discounts |-> <<>>], order),
        order),
      options),
    currentMonth)

\* Mutant: the result is returned without Math.max(0, ...)
applyMultiLevelDiscountsUnclamped(order, options, currentMonth) ==
  DiscountChain(order, options, currentMonth)

\* return { discountedPrice: Math.max(0, discountedPrice), discounts }
Clamp(chain) ==
  [discountedPrice |-> Max(0, chain.discountedPrice), discounts |-> chain.discounts]

applyMultiLevelDiscounts(order, options, currentMonth) ==
  Clamp(DiscountChain(order, options, currentMonth))

\* Mutant: an order already among this.state.processedOrders is not completed again
shouldCompleteOrderOnce(order, options) ==
  IF options.strictMode /\ order.discountedPrice <= 0 THEN FALSE
  ELSE IF options.requireMinimumValue /\ order.discountedPrice < Money(10) THEN FALSE
  ELSE IF options.skipInvalidCustomers /\ ~order.order.customer.isValid THEN FALSE
  ELSE \A i \in 1..Len(state.processedOrders) :
         state.processedOrders[i].order # order.order

shouldCompleteOrder(order, options) ==
  IF options.strictMode /\ order.discountedPrice <= 0 THEN FALSE
  ELSE IF options.requireMinimumValue /\ order.discountedPrice < Money(10) THEN FALSE
  ELSE IF options.skipInvalidCustomers /\ ~order.order.customer.isValid THEN FALSE
  ELSE TRUE

updateStatistics(statistics, order, status) ==
  LET successCount == IF status = "success" THEN statistics.successCount + 1
                      ELSE statistics.successCount
      failureCount == IF status = "success" THEN statistics.failureCount
                      ELSE statistics.failureCount + 1
      totalValue == IF status = "success"
                    THEN statistics.totalValue + order.discountedPrice
                    ELSE statistics.totalValue
  IN [successCount |-> successCount, failureCount |-> failureCount,
      totalValue |-> totalValue,
      \* truncated to the model's money unit
      averageOrderValue |-> totalValue \div Max(1, successCount)]

Failure(order, index, reason, errors) ==
  [order |-> order, index |-> index, reason |-> reason, errors |-> errors]

\* failedOrders.push(failure); updateStatistics(null, 'failure')
PushFailure(st, failure) ==
  [st EXCEPT !.failedOrders = Append(@, failure),
             !.metadata.statistics = updateStatistics(@, failure, "failure")]

handleValidationFailure(st, order, validationResult, index) ==
  PushFailure(st, Failure(order, index, "validation_failed", validationResult.errors))

handleCompletionFailure(st, order, index) ==
  PushFailure(st, Failure(order, index, "completion_failed", <<>>))

handleError(st, order, index) ==
  PushFailure(st, Failure(order, index, "error",
                          <<Err("fault", -1, "TypeError")>>))

NoBreakdown == [subtotal |-> 0, taxes |-> 0, fees |-> 0, adjustments |-> 0]

\* What one order came to: accepted with its pricing, or rejected with a reason.
Accepted(processedOrder) ==
  [tag |-> "accepted", reason |-> "", errors |-> <<>>,
   breakdown |-> processedOrder.pricingBreakdown,
   preDiscountTotal |-> processedOrder.finalPrice,
   finalPrice |-> processedOrder.discountedPrice,
   discounts |-> processedOrder.appliedDiscounts]

Rejected(failure) ==
  [tag |-> "rejected", reason |-> failure.reason, errors |-> failure.errors,
   breakdown |-> NoBreakdown, preDiscountTotal |-> 0, finalPrice |-> 0,
   discounts |-> <<>>]

\* Lines 43-45: processedOrder.finalPrice and .pricingBreakdown are set
WithPricing(transformed, pricingResult) ==
  [order |-> transformed.order,
   processingOptions |-> transformed.processingOptions,
   totalItems |-> transformed.totalItems,
   subtotal |-> transformed.subtotal,
   metadata |-> transformed.metadata,
   finalPrice |-> pricingResult.finalPrice,
   pricingBreakdown |-> pricingResult.breakdown]

\* Lines 48-50: processedOrder.discountedPrice and .appliedDiscounts are set
WithDiscounts(priced, discountResult) ==
  [order |-> priced.order,
   processingOptions |-> priced.processingOptions,
   totalItems |-> priced.totalItems,
   subtotal |-> priced.subtotal,
   metadata |-> priced.metadata,
   finalPrice |-> priced.finalPrice,
   pricingBreakdown |-> priced.pricingBreakdown,
   discountedPrice |-> discountResult.discountedPrice,
   appliedDiscounts |-> discountResult.discounts]

Priced(transformed, options) ==
  WithPricing(transformed, calculateComplexPricing(transformed, options))

Discounted(priced, options, currentMonth) ==
  WithDiscounts(priced, applyMultiLevelDiscounts(priced, options, currentMonth))

\* Lines 40-50: the order enriched, priced and discounted.
ProcessedOrder(order, options, currentMonth) ==
  Discounted(Priced(transformAndEnrichOrder(order, options), options),
             options, currentMonth)

\* The callback returned null after a failure was recorded in st2.
Failed(st2) ==
  [state |-> st2,
   outcome |-> Rejected(st2.failedOrders[Len(st2.failedOrders)])]

\* Lines 54-56: the order is pushed, counted and returned.
Completed(st, processedOrder) ==
  [state |-> [st EXCEPT
                !.processedOrders = Append(@, processedOrder),
                !.metadata.statistics = updateStatistics(@, processedOrder, "success")],
   outcome |-> Accepted(processedOrder)]

\* Lines 53-60
Complete(st, order, index, options, processedOrder) ==
  IF shouldCompleteOrder(processedOrder, options)
  THEN Completed(st, processedOrder)
  ELSE Failed(handleCompletionFailure(st, order, index))

\* Lines 34-64, once validation has returned or thrown
AfterValidation(st, order, index, options, currentMonth, validationResult) ==
  IF validationResult.threw THEN Failed(handleError(st, order, index))
  ELSE IF ~validationResult.isValid
  THEN Failed(handleValidationFailure(st, order, validationResult, index))
  ELSE Complete(st, order, index, options,
                ProcessedOrder(order, options, currentMonth))

\* The callback of this.state.orders.map, lines 30-65, for one order: the
\* state after it and the outcome of the order.
HandleOrder(st, order, index, options, currentMonth) ==
  AfterValidation(st, order, index, options, currentMonth,
                  performComprehensiveValidation(order))

Collect(run, one) ==
  [state |-> one.state, outcomes |-> Append(run.outcomes, one.outcome)]

\* this.state.orders.map(...) from the order at position index on; run is the
\* state and the outcomes so far
RECURSIVE MapOrders(_, _, _, _, _)
MapOrders(run, orders, index, options, currentMonth) ==
  IF index >= Len(orders) THEN run
  ELSE MapOrders(Collect(run, HandleOrder(run.state, orders[index + 1], index,
                                          options, currentMonth)),
                 orders, index + 1, options, currentMonth)

buildResponse(st, results, options) ==
  [success |-> TRUE,
   processed |-> Len(st.processedOrders),
   failed |-> Len(st.failedOrders),
   total |-> Len(st.orders),
   orders |-> IF options.includeDetails THEN results ELSE <<>>,
   hasStatistics |-> options.includeStatistics,
   statistics |-> st.metadata.statistics]

\* new OrderProcessor()
ConstructedState ==
  [orders |-> <<>>, processedOrders |-> <<>>, failedOrders |-> <<>>,
   metadata |-> [statistics |-> [successCount |-> 0, failureCount |-> 0,
                                 totalValue |-> 0, averageOrderValue |-> 0]]]

NoResponse ==
  [success |-> FALSE, processed |-> 0, failed |-> 0, total |-> 0, orders |-> <<>>,
   hasStatistics |-> FALSE, statistics |-> ConstructedState.metadata.statistics]

----------------------------------------------------------------------------
(* The refactored functions *)

\* for (const item of order.items): "throw" at a null item (reading item.id),
\* "invalid" at the first item failing the test, "ok" at the end.
RECURSIVE ScanItems(_)
ScanItems(elems) ==
  IF elems = <<>> THEN "ok"
  ELSE LET item == Head(elems)
       IN IF item.kind = "null" THEN "throw"
          ELSE IF ~item.id \/ item.price = 0 \/ item.price <= 0
                  \/ item.quantity = 0 \/ item.quantity <= 0
          THEN "invalid"
          ELSE ScanItems(Tail(elems))

Validation(threw, valid, error) == [threw |-> threw, valid |-> valid, error |-> error]

\* Lines 362-372, the loop having ended with scan
AfterItems(order, scan) ==
  IF scan = "throw" THEN Validation(TRUE, FALSE, "TypeError")
  ELSE IF scan = "invalid" THEN Validation(FALSE, FALSE, "Invalid item data")
  ELSE IF order.customer.kind = "absent" \/ ~order.customer.id
          \/ ~isValidEmail(order.customer.email)
  THEN Validation(FALSE, FALSE, "Invalid customer data")
  ELSE Validation(FALSE, TRUE, "")

validateOrder(order) ==
  IF order.kind # "object" \/ ~order.id
  THEN Validation(FALSE, FALSE, "Order must have an id")
  ELSE IF order.items.kind = "absent"
          \/ (order.items.kind = "array" /\ Len(order.items.elems) = 0)
  THEN Validation(FALSE, FALSE, "Order must have at least one item")
  ELSE IF order.items.kind = "nonarray"      \* not iterable: TypeError
  THEN Validation(TRUE, FALSE, "TypeError")
  ELSE AfterItems(order, ScanItems(order.items.elems))

calculateTax(subtotal) == Times(subtotal, TAX_RATE)

\* itemCount is a ratio n/d with d > 0
calculateFee(itemCount) ==
  IF itemCount.n > LARGE_ORDER_THRESHOLD * itemCount.d
  THEN LARGE_ORDER_FEE ELSE STANDARD_FEE

calculateTotal(subtotal, tax, fee) == subtotal + tax + fee

getCustomerTier(customer) ==
  LET totalSpent == IF customer.kind = "object" /\ customer.hasHistory
                    THEN customer.totalSpent ELSE 0
  IN IF totalSpent >= CUSTOMER_TIERS("premium").threshold THEN "premium"
     ELSE IF totalSpent >= CUSTOMER_TIERS("gold").threshold THEN "gold"
     ELSE "standard"

applyTierDiscount(price, tier) == Times(price, CUSTOMER_TIERS(tier).discount)

applyVolumeDiscount(price, itemCount) ==
  IF itemCount > LARGE_ORDER_THRESHOLD THEN Times(price, Rate(1, 20)) ELSE 0

applyPromoDiscount(price, promoCode) == Times(price, PROMO_CODES(promoCode))

applySeasonalDiscount(price, currentMonth) ==
  IF currentMonth = 11 THEN Times(price, Rate(3, 20)) ELSE 0

\* Lines 443-458
FinalPrice(subtotal, tax, fee, total, tierDiscount, volumeDiscount, promoDiscount, seasonalDiscount) ==
  [subtotal |-> subtotal, tax |-> tax, fee |-> fee, total |-> total,
   discounts |-> [tier |-> tierDiscount, volume |-> volumeDiscount,
                  promotional |-> promoDiscount, seasonal |-> seasonalDiscount],
   finalPrice |-> Max(0, total - (tierDiscount + volumeDiscount + promoDiscount
                                  + seasonalDiscount))]

\* Lines 436-441: every discount is computed on total
DiscountsOn(order, promoCode, currentMonth, subtotal, tax, fee, total) ==
  FinalPrice(subtotal, tax, fee, total,
             applyTierDiscount(total, getCustomerTier(order.customer)),
             applyVolumeDiscount(total, Len(order.items.elems)),
             IF promoCode # "" THEN applyPromoDiscount(total, promoCode) ELSE 0,
             applySeasonalDiscount(total, currentMonth))

TotalOf(order, promoCode, currentMonth, subtotal, tax, fee) ==
  DiscountsOn(order, promoCode, currentMonth, subtotal, tax, fee,
              calculateTotal(subtotal, tax, fee))

TaxAndFee(order, promoCode, currentMonth, subtotal) ==
  TotalOf(order, promoCode, currentMonth, subtotal, calculateTax(subtotal),
          calculateFee(Rate(calculateSubtotal(order.items.elems),
                            Money(order.items.elems[1].price))))

calculateFinalPrice(order, promoCode, currentMonth) ==
  TaxAndFee(order, promoCode, currentMonth, calculateSubtotal(order.items.elems))

NoPricing ==
  [subtotal |-> 0, tax |-> 0, fee |-> 0, total |-> 0,
   discounts |-> [tier |-> 0, volume |-> 0, promotional |-> 0, seasonal |-> 0],
   finalPrice |-> 0]

RefOutcome(threw, success, error, itemCount, pricing) ==
  [threw |-> threw, success |-> success, error |-> error,
   order |-> [itemCount |-> itemCount, pricing |-> pricing]]

\* Lines 472-486
CheckMinimum(order, pricing) ==
  IF pricing.finalPrice < Money(MINIMUM_ORDER_VALUE)
  THEN RefOutcome(FALSE, FALSE, "Order value below minimum", 0, NoPricing)
  ELSE RefOutcome(FALSE, TRUE, "", Len(order.items.elems), pricing)

\* Lines 465-486
AfterValidate(order, promoCode, currentMonth, validation) ==
  IF validation.threw THEN RefOutcome(TRUE, FALSE, validation.error, 0, NoPricing)
  ELSE IF ~validation.valid
  THEN RefOutcome(FALSE, FALSE, validation.error, 0, NoPricing)
  ELSE CheckMinimum(order, calculateFinalPrice(order, promoCode, currentMonth))

processOrder(order, promoCode, currentMonth) ==
  AfterValidate(order, promoCode, currentMonth, validateOrder(order))

\* Lines 492-500, or the fault of one order escaping the call
Summary(orders, results) ==
  IF \E i \in 1..Len(orders) : results[i].threw
  THEN [called |-> TRUE, threw |-> TRUE, results |-> <<>>, total |-> 0,
        successful |-> 0, failed |-> 0, orders |-> <<>>]
  ELSE [called |-> TRUE, threw |-> FALSE, results |-> results,
        total |-> Len(orders),
        successful |-> Len(SelectSeq(results, LAMBDA r : r.success)),
        failed |-> Len(SelectSeq(results, LAMBDA r : ~r.success)),
        orders |-> [i \in 1..Len(SelectSeq(results, LAMBDA r : r.success)) |->
                      SelectSeq(results, LAMBDA r : r.success)[i].order]]

\* The refactored processOrders: a fault in one order escapes the whole call.
processOrders(orders, promoCode, currentMonth) ==
  Summary(orders,
          [i \in 1..Len(orders) |-> processOrder(orders[i], promoCode, currentMonth)])

NotCalled ==
  [called |-> FALSE, threw |-> FALSE, results |-> <<>>, total |-> 0,
   successful |-> 0, failed |-> 0, orders |-> <<>>]

----------------------------------------------------------------------------
(* Inputs *)

SeqsOf(S, lo, hi) == UNION {[1..k -> S] : k \in lo..hi}

\* The order of both usage examples (lines 321-327 and 504-514)
UsageOrder ==
  Order(TRUE, ItemsArray(<<Item(TRUE, 10, 2)>>),
        Customer(TRUE, GoodEmail, TRUE, 1200, FALSE))

\* Well-formed orders: what pricing depends on
PricingItems == {Item(TRUE, 1, 1), Item(TRUE, 10, 2), Item(TRUE, 1, 11)}
PricingCustomers ==
  {Customer(TRUE, GoodEmail, FALSE, 0, FALSE)}
  \cup {Customer(TRUE, GoodEmail, TRUE, spent, FALSE) : spent \in {500, 1000, 1200}}
PricingOrders ==
  {Order(TRUE, ItemsArray(elems), c) :
     elems \in SeqsOf(PricingItems, 1, MaxItems), c \in PricingCustomers}
PricingOptions ==
  {Options(t, f, a, p, s, r, FALSE) :
     t \in {Rate(0, 1), Rate(1, 5)}, f \in BOOLEAN,
     a \in {<<>>, <<-1000>>, <<5, -3>>},
     p \in {"", "SAVE10", "SAVE20", "SAVE50", "FAKE"},
     s \in BOOLEAN, r \in BOOLEAN}
Months == {0, 11}

\* Malformed records: what validation and fault handling depend on
StructuralItems ==
  {Item(TRUE, 10, 2), Item(FALSE, 10, 2), Item(TRUE, 0, 2), Item(TRUE, 10, 0),
   Item(FALSE, -1, 0), NullItem}
StructuralCustomers ==
  {NoCustomer,
   Customer(FALSE, GoodEmail, FALSE, 0, FALSE),
   Customer(TRUE, NoTldEmail, FALSE, 0, FALSE),
   Customer(TRUE, SpaceEmail, FALSE, 0, FALSE),
   Customer(TRUE, NoEmail, FALSE, 0, FALSE),
   Customer(TRUE, GoodEmail, FALSE, 0, FALSE),
   Customer(TRUE, GoodEmail, FALSE, 0, TRUE)}
StructuralOrders ==
  {NullOrder, NonObjectOrder}
  \cup {Order(i, items, c) :
          i \in BOOLEAN,
          items \in {NoItems, NotAnArray}
                    \cup {ItemsArray(e) : e \in SeqsOf(StructuralItems, 0, MaxItems)},
          c \in StructuralCustomers}
StructuralOptions ==
  {DefaultOptions,
   Options(Rate(0, 1), TRUE, <<>>, "", FALSE, TRUE, FALSE),
   Options(Rate(0, 1), TRUE, <<>>, "", FALSE, FALSE, TRUE)}

\* A session on one instance: few orders, several calls
SessionOrders ==
  {UsageOrder,
   Order(TRUE, ItemsArray(<<Item(TRUE, 1, 1)>>),
         Customer(TRUE, GoodEmail, FALSE, 0, FALSE)),
   Order(TRUE, ItemsArray(<<Item(TRUE, 10, 2), NullItem>>), NoCustomer)}
SessionOptions ==
  {DefaultOptions, Options(Rate(0, 1), TRUE, <<>>, "SAVE10", FALSE, TRUE, FALSE)}

----------------------------------------------------------------------------
(* The state machine *)

Input(orders, options, month) == [orders |-> orders, options |-> options, month |-> month]

Init ==
  /\ state = ConstructedState
  /\ input = Input(<<UsageOrder>>, DefaultOptions, 0)
  /\ response = NoResponse
  /\ outcomes = <<>>
  /\ seen = {}
  /\ refResult = NotCalled

\* Lines 67-69 and what the caller holds after the call; before is the number
\* of processed orders when the call began
Return(run, before, orders, options, currentMonth) ==
  /\ state' = run.state
  /\ input' = Input(orders, options, currentMonth)
  /\ response' = buildResponse(run.state,
                               SubSeq(run.state.processedOrders, before + 1,
                                      Len(run.state.processedOrders)),
                               options)
  /\ outcomes' = run.outcomes
  /\ seen' = seen \cup {[order |-> orders[i], options |-> options,
                         month |-> currentMonth, outcome |-> run.outcomes[i]] :
                        i \in 1..Len(orders)}
  /\ refResult' = NotCalled

\* processor.processOrders(orders, options), run in month currentMonth
ProcessOrders(orders, options, currentMonth) ==
  Return(MapOrders([state |-> [state EXCEPT !.orders = orders], outcomes |-> <<>>],
                   orders, 0, options, currentMonth),
         Len(state.processedOrders), orders, options, currentMonth)

\* The refactored processOrders(orders, promoCode) on the same orders and code
RefProcessOrders ==
  /\ ~refResult.called
  /\ refResult' = processOrders(input.orders, input.options.promotionalCode, input.month)
  /\ UNCHANGED <<state, input, response, outcomes, seen>>

Handled == Len(state.processedOrders) + Len(state.failedOrders)

\* One well-formed order on a new instance
PriceOrder ==
  /\ state = ConstructedState
  /\ \E order \in PricingOrders, options \in PricingOptions, month \in Months :
       ProcessOrders(<<order>>, options, month)

\* One possibly malformed record on a new instance
PriceRecord ==
  /\ state = ConstructedState
  /\ \E order \in StructuralOrders, options \in StructuralOptions :
       ProcessOrders(<<order>>, options, 0)

\* A further batch on the same instance
PriceBatch ==
  /\ Handled <= MaxHandled
  /\ \E orders \in SeqsOf(SessionOrders, 0, MaxBatch), options \in SessionOptions,
        month \in Months :
       /\ Handled + Len(orders) <= MaxHandled
       /\ ProcessOrders(orders, options, month)

Next == PriceOrder \/ PriceRecord \/ RefProcessOrders

Spec == Init /\ [][Next]_vars

NextSession == PriceBatch \/ RefProcessOrders

SpecSession == Init /\ [][NextSession]_vars

\* The money unit is fine enough: every total before discounts is a multiple
\* of the product of the discount rates' denominators.
MoneyIsExact ==
  \A i \in 1..Len(state.processedOrders) :
    state.processedOrders[i].finalPrice % 40000 = 0

----------------------------------------------------------------------------
(* What the latest calls reported, order by order *)

Positions == 1..Len(input.orders)

OrigRan == response.success
RefRan == refResult.called
RefReturned == refResult.called /\ ~refResult.threw

OrigAccepted(i) == OrigRan /\ outcomes[i].tag = "accepted"
RefAccepted(i) == RefReturned /\ refResult.results[i].success

\* The rate of each discount rule for an order, as the specification states them
SpecTier(customer) ==
  LET totalSpent == IF customer.kind = "object" /\ customer.hasHistory
                    THEN customer.totalSpent ELSE 0
  IN IF totalSpent >= 1000 THEN "premium"
     ELSE IF totalSpent >= 500 THEN "gold" ELSE "standard"

SpecPromoRate(code) ==
  CASE code = "SAVE10" -> Rate(1, 10)
    [] code = "SAVE20" -> Rate(1, 5)
    [] code = "SAVE50" -> Rate(1, 2)
    [] OTHER -> Rate(0, 1)

\* tier, volume, promotional and seasonal amounts are each a percentage of what
\* the earlier ones left of total (an amount of 0 is a rule that did not apply)
Sequential(total, tier, volume, promotional, seasonal, code, month, final) ==
  /\ tier \in {0, Times(total, Rate(1, 10))}
  /\ volume \in {0, Times(total - tier, Rate(1, 20))}
  /\ promotional \in {0, Times(total - tier - volume, SpecPromoRate(code))}
  /\ seasonal \in {0} \cup (IF month = 11
                             THEN {Times(total - tier - volume - promotional, Rate(3, 20))}
                             ELSE {})
  /\ final = Max(0, total - tier - volume - promotional - seasonal)

AmountOf(discounts, type) ==
  SumSeq([k \in 1..Len(discounts) |->
            IF discounts[k].type = type THEN discounts[k].amount ELSE 0])

TypesOf(discounts) == [k \in 1..Len(discounts) |-> discounts[k].type]

IsSubsequenceOfRuleOrder(types) ==
  LET rank(t) == CASE t = "tier" -> 1 [] t = "volume" -> 2
                   [] t = "promotional" -> 3 [] OTHER -> 4
  IN \A a, b \in 1..Len(types) : a < b => rank(types[a]) < rank(types[b])

OrigSequential ==
  \A i \in Positions : OrigAccepted(i) =>
    LET o == outcomes[i]
    IN /\ IsSubsequenceOfRuleOrder(TypesOf(o.discounts))
       /\ Sequential(o.preDiscountTotal,
                     AmountOf(o.discounts, "tier"), AmountOf(o.discounts, "volume"),
                     AmountOf(o.discounts, "promotional"),
                     AmountOf(o.discounts, "seasonal"),
                     input.options.promotionalCode, input.month, o.finalPrice)

RefSequential ==
  \A i \in Positions : RefAccepted(i) =>
    LET p == refResult.results[i].order.pricing
    IN Sequential(p.total, p.discounts.tier, p.discounts.volume,
                  p.discounts.promotional, p.discounts.seasonal,
                  input.options.promotionalCode, input.month, p.finalPrice)

\* C1: for every valid order the discounts are applied in the order tier,
\* volume, promotional, seasonal, each amount being its percentage of the
\* running total left by the earlier ones, in both implementations.
C1_DiscountsOnRunningTotal == OrigSequential /\ RefSequential

\* C2: whatever the records of the batch, processing returns (no fault escapes)
\* with exactly one outcome, accepted or rejected, per record.
C2_NoFaultEscapes ==
  /\ OrigRan =>
       /\ Len(outcomes) = Len(input.orders)
       /\ \A i \in Positions : outcomes[i].tag \in {"accepted", "rejected"}
  /\ RefRan =>
       /\ ~refResult.threw
       /\ Len(refResult.results) = Len(input.orders)

\* C3: the final price reported for an accepted order is never negative,
\* whatever the options and however negative the adjustments.
C3_FinalPriceNonNegative ==
  /\ \A i \in Positions : OrigAccepted(i) => outcomes[i].finalPrice >= 0
  /\ \A i \in 1..Len(state.processedOrders) :
       state.processedOrders[i].discountedPrice >= 0
  /\ \A i \in Positions : RefAccepted(i) =>
       refResult.results[i].order.pricing.finalPrice >= 0

\* C3 witness: an accepted order whose negative adjustments drove the
\* pre-discount total below zero, reported at a final price of 0.
C3_Witness ==
  /\ OrigRan
  /\ Len(input.orders) = 1
  /\ SumSeq(input.options.adjustments) < 0
  /\ outcomes[1].tag = "accepted"
  /\ outcomes[1].preDiscountTotal < 0
  /\ outcomes[1].finalPrice = 0

SpecFee(order) ==
  IF TotalItems(order.items.elems) > 10 THEN Money(5) ELSE Money(5) \div 2

\* C4: the fee of a valid order is 5.00 exactly when the sum of its item
\* quantities exceeds 10, and 2.50 otherwise, in both implementations.
C4_FeeByTotalQuantity ==
  /\ \A i \in Positions : (OrigAccepted(i) /\ input.options.applyFees) =>
       outcomes[i].breakdown.fees = SpecFee(input.orders[i])
  /\ \A i \in Positions : RefAccepted(i) =>
       refResult.results[i].order.pricing.fee = SpecFee(input.orders[i])

\* C5: the derived tier is premium from totalSpent 1000 on, gold from 500 on and
\* standard otherwise, and a premium customer receives the 10% tier discount.
C5_TierThresholds ==
  /\ \A i \in 1..Len(state.processedOrders) :
       LET o == state.processedOrders[i]
       IN /\ o.metadata.customerTier = SpecTier(o.order.customer)
          /\ SpecTier(o.order.customer) = "premium" =>
               AmountOf(o.appliedDiscounts, "tier") = Times(o.finalPrice, Rate(1, 10))
  /\ \A i \in Positions : RefAccepted(i) =>
       LET p == refResult.results[i].order.pricing
       IN p.discounts.tier =
            IF SpecTier(input.orders[i].customer) = "premium"
            THEN Times(p.total, Rate(1, 10)) ELSE 0

\* The indices of the items of an order that are invalid on their own
InvalidItemIndices(order) ==
  {k \in 0..(Len(order.items.elems) - 1) :
     LET item == order.items.elems[k + 1]
     IN ~item.id \/ item.price <= 0 \/ item.quantity <= 0}

AllItemsAreObjects(order) ==
  /\ order.kind = "object"
  /\ order.items.kind = "array"
  /\ \A k \in 1..Len(order.items.elems) : order.items.elems[k].kind = "object"

\* The item-level error entries of a rejection by the refactored validateOrder:
\* its one error string, which names no item
RefItemEntries(result) ==
  IF result.error = "Invalid item data" THEN {Err("item", -1, result.error)} ELSE {}

\* C6: validation does not stop at the first failure: an order with k >= 2
\* invalid items is rejected with an error entry for each of them, naming its
\* index, in both implementations.
C6_EveryInvalidItemReported ==
  \A i \in Positions :
    (AllItemsAreObjects(input.orders[i])
     /\ Cardinality(InvalidItemIndices(input.orders[i])) >= 2) =>
      /\ OrigRan =>
           /\ outcomes[i].tag = "rejected"
           /\ \A k \in InvalidItemIndices(input.orders[i]) :
                \E e \in 1..Len(outcomes[i].errors) :
                  outcomes[i].errors[e].scope = "item" /\ outcomes[i].errors[e].index = k
      /\ RefReturned =>
           /\ ~refResult.results[i].success
           /\ \A k \in InvalidItemIndices(input.orders[i]) :
                \E e \in RefItemEntries(refResult.results[i]) : e.index = k

\* C7: without the requireMinimumValue option (and without strictMode) no order
\* is rejected for a final price below the minimum, in both implementations.
C7_MinimumGateOptIn ==
  (~input.options.requireMinimumValue /\ ~input.options.strictMode
   /\ ~input.options.skipInvalidCustomers) =>
    /\ OrigRan => \A i \in Positions : outcomes[i].reason # "completion_failed"
    /\ RefReturned =>
         \A i \in Positions : refResult.results[i].error # "Order value below minimum"

\* C8: pricing the same order again with the same options in the same month on
\* the same instance gives the same outcome: tag, reason, breakdown, discount
\* list and final price.
C8_Idempotent ==
  \A a, b \in seen :
    (a.order = b.order /\ a.options = b.options /\ a.month = b.month)
      => a.outcome = b.outcome

\* C8 witness: an order accepted twice on one instance with the same options
\* and month, the second time with the first call's statistics retained.
C8_Witness ==
  /\ Len(state.processedOrders) = 2
  /\ state.failedOrders = <<>>
  /\ Cardinality(seen) = 1
  /\ state.metadata.statistics.successCount = 2
  /\ Len(input.orders) = 1

DefaultsWithMinimum(options) ==
  /\ options.taxRate.n = 0
  /\ options.applyFees
  /\ options.adjustments = <<>>
  /\ ~options.strictMode
  /\ ~options.skipInvalidCustomers
  /\ options.requireMinimumValue

\* C9: with default tax and fees and requireMinimumValue set, the refactored
\* functions and the OrderProcessor agree on every order: both accept or both
\* reject, and when both accept, on subtotal, tax, fee, total and final price.
C9_RefactoringPreservesBehaviour ==
  (OrigRan /\ RefRan /\ DefaultsWithMinimum(input.options)) =>
    /\ ~refResult.threw
    /\ \A i \in Positions :
         /\ (outcomes[i].tag = "accepted") = refResult.results[i].success
         /\ (outcomes[i].tag = "accepted" /\ refResult.results[i].success) =>
              LET o == outcomes[i]
                  p == refResult.results[i].order.pricing
              IN /\ o.breakdown.subtotal = p.subtotal
                 /\ o.breakdown.taxes = p.tax
                 /\ o.breakdown.fees = p.fee
                 /\ o.preDiscountTotal = p.total
                 /\ o.finalPrice = p.finalPrice

\* C10: the response of every processOrders call on an instance has
\* processed + failed = total, the size of that call's batch, and its
\* statistics count successCount + failureCount = total.
C10_CountsAddUp ==
  OrigRan =>
    /\ response.total = Len(input.orders)
    /\ response.processed + response.failed = response.total
    /\ response.statistics.successCount + response.statistics.failureCount
         = response.total

====
